---- MODULE Spec2Model ----
(***************************************************************************)
(* Hodgkin-Huxley FI-curve notebook (Hodgkin-Huxley-FIcurve.ipynb):        *)
(* the HodgkinHuxleyModel class, the fixed-step solvers, the simulation    *)
(* loop over the injected currents, the spike detector and the firing      *)
(* rate.                                                                   *)
(*                                                                         *)
(* float64 values are modelled as fixed-point integers: the integer x      *)
(* stands for the real x / Scale.  Finite values lie in -MaxMag .. MaxMag; *)
(* a result beyond that range overflows to +inf / -inf as a float64 does   *)
(* beyond its own range, and nan is a third special value.  Rounding is to *)
(* the nearest representable value.                                        *)
(***************************************************************************)
EXTENDS Integers, Sequences, FiniteSets, TLC

\* ------------------------------------------------------------------------
\* float64 arithmetic
\* ------------------------------------------------------------------------
Scale == 1000

MaxMag == 2000000

PosInf == MaxMag + 1

NegInf == 0 - PosInf

NaN == MaxMag + 2

None == <<>>

Abs(x) == IF x < 0 THEN 0 - x ELSE x

Sgn(x) == IF x < 0 THEN 0 - 1 ELSE IF x > 0 THEN 1 ELSE 0

\* the float written n/d in the source text, e.g. F(1, 10) for 0.1
F(n, d) == (n * Scale) \div d

IsNaN(x) == x = NaN

IsFinite(x) == x >= 0 - MaxMag /\ x <= MaxMag

\* overflow of a finite result to an infinity
Norm(x) == IF x > MaxMag THEN PosInf ELSE IF x < 0 - MaxMag THEN NegInf ELSE x

fneg(a) == IF IsNaN(a) THEN NaN ELSE 0 - a

fadd(a, b) ==
    IF IsNaN(a) \/ IsNaN(b) THEN NaN
    ELSE IF ~IsFinite(a) THEN (IF b = 0 - a THEN NaN ELSE a)
    ELSE IF ~IsFinite(b) THEN b
    ELSE Norm(a + b)

fsub(a, b) == fadd(a, fneg(b))

\* product of two finite magnitudes, rounded to nearest
MulMag(a, b) ==
    LET bh == b \div Scale
        bl == b % Scale
    IN  IF bh > 0 /\ a > MaxMag \div bh THEN PosInf
        ELSE Norm(a * bh + (a * bl + Scale \div 2) \div Scale)

fmul(a, b) ==
    IF IsNaN(a) \/ IsNaN(b) THEN NaN
    ELSE IF ~IsFinite(a) \/ ~IsFinite(b)
         THEN (IF a = 0 \/ b = 0 THEN NaN
               ELSE IF Sgn(a) * Sgn(b) > 0 THEN PosInf ELSE NegInf)
    ELSE Sgn(a) * Sgn(b) * MulMag(Abs(a), Abs(b))

\* numpy float64 division: x/0 is +-inf, 0/0 is nan, no exception
fdiv(a, b) ==
    IF IsNaN(a) \/ IsNaN(b) THEN NaN
    ELSE IF ~IsFinite(a)
         THEN (IF ~IsFinite(b) THEN NaN ELSE IF b >= 0 THEN a ELSE 0 - a)
    ELSE IF ~IsFinite(b) THEN 0
    ELSE IF b = 0 THEN (IF a = 0 THEN NaN ELSE IF a > 0 THEN PosInf ELSE NegInf)
    ELSE Sgn(a) * Sgn(b) * Norm((Abs(a) * Scale + Abs(b) \div 2) \div Abs(b))

\* e^k for k = 0 .. 7, in fixed point
ExpTable == <<1000, 2718, 7389, 20086, 54598, 148413, 403429, 1096633>>

RECURSIVE ExpSeries(_, _, _)
\* sum of the terms r^i / i! from term t = r^(i-1)/(i-1)! on, up to i = 7
ExpSeries(r, t, i) ==
    IF i > 7 THEN 0
    ELSE LET u == (t * r + (i * Scale) \div 2) \div (i * Scale)
         IN  u + ExpSeries(r, u, i + 1)

\* e^x for a finite x >= 0
ExpPos(x) ==
    LET k == x \div Scale
    IN  IF k >= Len(ExpTable) THEN PosInf
        ELSE MulMag(ExpTable[k + 1], Scale + ExpSeries(x % Scale, Scale, 1))

\* np.exp
fexp(x) ==
    IF IsNaN(x) THEN NaN
    ELSE IF x = PosInf THEN PosInf
    ELSE IF x = NegInf THEN 0
    ELSE IF x >= 0 THEN ExpPos(x)
    ELSE fdiv(Scale, ExpPos(0 - x))

RECURSIVE fpow(_, _)
\* a ** n for a small literal exponent n
fpow(a, n) == IF n = 0 THEN Scale ELSE fmul(fpow(a, n - 1), a)

\* float comparisons: every comparison with nan is false
Less(a, b) == ~IsNaN(a) /\ ~IsNaN(b) /\ a < b

Greater(a, b) == ~IsNaN(a) /\ ~IsNaN(b) /\ a > b

\* elementwise operations on the 4-vectors (numpy arrays of shape (4,))
vadd(x, y) == [c \in 1..4 |-> fadd(x[c], y[c])]

vscale(k, x) == [c \in 1..4 |-> fmul(k, x[c])]

vdiv(x, k) == [c \in 1..4 |-> fdiv(x[c], k)]

\* ------------------------------------------------------------------------
\* class HodgkinHuxleyModel
\* ------------------------------------------------------------------------
\* the initial V, m, h, n of every instance
InitStates == <<F(0 - 65, 1), F(5, 100), F(6, 10), F(32, 100)>>

\* __init__(self, dt, solver): the fields of a new instance
HodgkinHuxleyModel(dt_, solver_) ==
    [C_m    |-> F(1, 1),
     g_Na   |-> F(120, 1),
     g_K    |-> F(36, 1),
     g_L    |-> F(3, 10),
     E_Na   |-> F(50, 1),
     E_K    |-> F(0 - 77, 1),
     E_L    |-> F(0 - 54387, 1000),
     solver |-> solver_,
     dt     |-> dt_,
     states |-> InitStates,
     I_inj  |-> None]

alpha_m(V) ==
    fdiv(fmul(F(1, 10), fadd(V, F(40, 1))),
         fsub(F(1, 1), fexp(fdiv(fneg(fadd(V, F(40, 1))), F(10, 1)))))

beta_m(V) == fmul(F(4, 1), fexp(fdiv(fneg(fadd(V, F(65, 1))), F(18, 1))))

alpha_h(V) == fmul(F(7, 100), fexp(fdiv(fneg(fadd(V, F(65, 1))), F(20, 1))))

beta_h(V) ==
    fdiv(F(1, 1), fadd(F(1, 1), fexp(fdiv(fneg(fadd(V, F(35, 1))), F(10, 1)))))

alpha_n(V) ==
    fdiv(fmul(F(1, 100), fadd(V, F(55, 1))),
         fsub(F(1, 1), fexp(fdiv(fneg(fadd(V, F(55, 1))), F(10, 1)))))

beta_n(V) == fmul(F(125, 1000), fexp(fdiv(fneg(fadd(V, F(65, 1))), F(80, 1))))

I_Na(self, V, m, h) ==
    fmul(fmul(fmul(self.g_Na, fpow(m, 3)), h), fsub(V, self.E_Na))

I_K(self, V, n) == fmul(fmul(self.g_K, fpow(n, 4)), fsub(V, self.E_K))

I_L(self, V) == fmul(self.g_L, fsub(V, self.E_L))

\* the derivative of (V, m, h, n) under the current self.I_inj
dALLdt(self, states) ==
    LET V == states[1]
        m == states[2]
        h == states[3]
        n == states[4]
        dVdt == fdiv(fsub(fsub(fsub(self.I_inj, I_Na(self, V, m, h)),
                               I_K(self, V, n)), I_L(self, V)), self.C_m)
        dmdt == fsub(fmul(alpha_m(V), fsub(F(1, 1), m)), fmul(beta_m(V), m))
        dhdt == fsub(fmul(alpha_h(V), fsub(F(1, 1), h)), fmul(beta_h(V), h))
        dndt == fsub(fmul(alpha_n(V), fsub(F(1, 1), n)), fmul(beta_n(V), n))
    IN  <<dVdt, dmdt, dhdt, dndt>>

\* the arguments of the successive calls of func made by Solvers, in order
FuncCalls(self, x, dt_) ==
    IF self.solver = "RK4"
    THEN LET k1 == vscale(dt_, dALLdt(self, x))
             k2 == vscale(dt_, dALLdt(self, vadd(x, vscale(F(5, 10), k1))))
             k3 == vscale(dt_, dALLdt(self, vadd(x, vscale(F(5, 10), k2))))
         IN  <<x, vadd(x, vscale(F(5, 10), k1)),
               vadd(x, vscale(F(5, 10), k2)), vadd(x, k3)>>
    ELSE IF self.solver = "Euler"
    THEN <<x>>
    ELSE <<>>

\* Solvers with the gating components of the result clamped to [0, 1]
Solvers_clamp(self, x, dt_) ==
    LET y == IF self.solver = "RK4"
             THEN LET k1 == vscale(dt_, dALLdt(self, x))
                      k2 == vscale(dt_, dALLdt(self, vadd(x, vscale(F(5, 10), k1))))
                      k3 == vscale(dt_, dALLdt(self, vadd(x, vscale(F(5, 10), k2))))
                      k4 == vscale(dt_, dALLdt(self, vadd(x, k3)))
                  IN  vadd(x, vdiv(vadd(vadd(vadd(k1, vscale(F(2, 1), k2)),
                                             vscale(F(2, 1), k3)), k4), F(6, 1)))
             ELSE vadd(x, vscale(dt_, dALLdt(self, x)))
    IN  [c \in 1..4 |->
            IF c = 1 \/ IsNaN(y[c]) THEN y[c]
            ELSE IF y[c] < 0 THEN 0
            ELSE IF y[c] > F(1, 1) THEN F(1, 1)
            ELSE y[c]]

\* Solvers(self, func, x, dt) with func = self.dALLdt: one step of the
\* selected method, None for any other solver name
Solvers(self, x, dt_) ==
    IF self.solver = "RK4"
    THEN LET k1 == vscale(dt_, dALLdt(self, x))
             k2 == vscale(dt_, dALLdt(self, vadd(x, vscale(F(5, 10), k1))))
             k3 == vscale(dt_, dALLdt(self, vadd(x, vscale(F(5, 10), k2))))
             k4 == vscale(dt_, dALLdt(self, vadd(x, k3)))
         IN  vadd(x, vdiv(vadd(vadd(vadd(k1, vscale(F(2, 1), k2)),
                                    vscale(F(2, 1), k3)), k4), F(6, 1)))
    ELSE IF self.solver = "Euler"
    THEN vadd(x, vscale(dt_, dALLdt(self, x)))
    ELSE None

\* __call__ with the step taken before I is stored, so that the derivative
\* reads the current left by the call before (0 on a new instance)
Call_stale(self, I) ==
    LET self0 == IF DOMAIN self.I_inj = {} THEN [self EXCEPT !.I_inj = 0] ELSE self
    IN  [self0 EXCEPT !.states = Solvers(self0, self.states, self.dt),
                      !.I_inj = I]

\* __call__ of an instance that halves its own step size whenever the new V
\* is above 0
Call_adapt(self, I) ==
    LET self1 == [self EXCEPT !.I_inj = I]
        y == Solvers(self1, self.states, self.dt)
    IN  [self1 EXCEPT !.states = y,
                      !.dt = IF Greater(y[1], 0) THEN fmul(F(1, 2), @) ELSE @]

\* __call__(self, I): the instance after the call; the value returned is
\* its new states field
Call(self, I) ==
    LET self1 == [self EXCEPT !.I_inj = I]
    IN  [self1 EXCEPT !.states = Solvers(self1, self.states, self.dt)]

\* ------------------------------------------------------------------------
\* numpy operations of the recording array and the spike detector
\* ------------------------------------------------------------------------
\* np.zeros((n, 4))
Zeros(n) == [r \in 1..n |-> <<0, 0, 0, 0>>]

\* V_arr[i] = v: the scalar v is broadcast over the 4 entries of row i
SetRow(a, r, v) == [a EXCEPT ![r] = <<v, v, v, v>>]

\* a[:-1]
AllButLast(a) == IF Len(a) = 0 THEN <<>> ELSE SubSeq(a, 1, Len(a) - 1)

\* a[1:]
FromSecond(a) == IF Len(a) = 0 THEN <<>> ELSE SubSeq(a, 2, Len(a))

\* a < 0, elementwise
LessZero(a) == [r \in 1..Len(a) |-> [c \in 1..4 |-> Less(a[r][c], 0)]]

\* a > 0, elementwise
GreaterZero(a) == [r \in 1..Len(a) |-> [c \in 1..4 |-> Greater(a[r][c], 0)]]

\* np.bitwise_and(a, b) of two boolean arrays of the same shape
bitwise_and(a, b) == [r \in 1..Len(a) |-> [c \in 1..4 |-> a[r][c] /\ b[r][c]]]

\* the detector with >= in place of > on the later sample
Spike_ge(a) ==
    LET lo == AllButLast(a)
        hi == FromSecond(a)
    IN  [r \in 1..Len(lo) |->
            [c \in 1..4 |-> Less(lo[r][c], 0) /\ ~IsNaN(hi[r][c]) /\ hi[r][c] >= 0]]

\* the detector with <= in place of < on the earlier sample
Spike_le(a) ==
    LET lo == AllButLast(a)
        hi == FromSecond(a)
    IN  [r \in 1..Len(lo) |->
            [c \in 1..4 |-> ~IsNaN(lo[r][c]) /\ lo[r][c] <= 0 /\ Greater(hi[r][c], 0)]]

\* spike = np.bitwise_and(V_arr[:-1]<0, V_arr[1:]>0)
Spike(a) == bitwise_and(LessZero(AllButLast(a)), GreaterZero(FromSecond(a)))

\* np.sum(a) of a boolean array: the number of True entries, all axes
np_sum(a) == Cardinality({e \in (1..Len(a)) \X (1..4) : a[e[1]][e[2]]})

\* rate = np.sum(spike) / T*1e3
RateOf(sp, T_) == fmul(fdiv(np_sum(sp) * Scale, T_), F(1000, 1))

\* round(a / b) of Python 3 for b # 0: to nearest, ties to even
Round(a, b) ==
    LET q == Abs(a) \div Abs(b)
        r == Abs(a) % Abs(b)
        n == IF 2 * r < Abs(b) THEN q
             ELSE IF 2 * r > Abs(b) THEN q + 1
             ELSE IF q % 2 = 0 THEN q ELSE q + 1
    IN  Sgn(a) * Sgn(b) * n

\* ------------------------------------------------------------------------
\* the notebook's state
\* ------------------------------------------------------------------------
\* dt, T, nt, I_inj, firing_rate and solver are shared by the whole sweep.
\* The names bound by the loop body (j, HH_neuron, V_arr, i, X, spike, rate)
\* are kept per frame: frame 0 is the notebook's own namespace, which runs
\* the sweep loop; a frame w >= 1 is a unit of work that executes the loop
\* body once, for j = w, with its own bindings.
VARIABLES dt, T, solver, nt, I_inj, firing_rate,
          pc, err, j, HH_neuron, V_arr, i, X, spike, rate

vars == <<dt, T, solver, nt, I_inj, firing_rate,
          pc, err, j, HH_neuron, V_arr, i, X, spike, rate>>

\* number of sweep points at most
MaxN == 2

\* number of samples of a synthetic trace at most
MaxLen == 5

DtSet == {F(5, 10), F(1, 1)}

TSet == {F(5, 10), F(25, 10), F(5, 1)}

SolverSet == {"RK4", "Euler"}

\* injected currents, within the range 0 .. 30 sampled by the notebook
Currents == {F(0, 1), F(10, 1), F(20, 1), F(29, 1)}

\* I_inj = np.sort(30*np.random.rand(N)): ascending sequences of currents
SweepInputs ==
    {q \in UNION {[1..n -> Currents] : n \in 1..MaxN} :
        \A k \in 1..(Len(q) - 1) : q[k] <= q[k + 1]}

Frames == DOMAIN pc

InitFrames(F0) ==
    /\ nt = 0
    /\ firing_rate = <<>>
    /\ pc = [w \in F0 |-> IF w = 0 THEN "setup" ELSE "wait"]
    /\ err = [w \in F0 |-> "none"]
    /\ j = [w \in F0 |-> 0]
    /\ HH_neuron = [w \in F0 |-> None]
    /\ V_arr = [w \in F0 |-> None]
    /\ i = [w \in F0 |-> 0]
    /\ X = [w \in F0 |-> None]
    /\ spike = [w \in F0 |-> None]
    /\ rate = [w \in F0 |-> None]

Init ==
    /\ dt \in DtSet
    /\ T \in TSet
    /\ solver \in SolverSet
    /\ I_inj \in SweepInputs
    /\ InitFrames({0})

Raise(w, e) ==
    /\ pc' = [pc EXCEPT ![w] = "error"]
    /\ err' = [err EXCEPT ![w] = e]

\* nt = round(T/dt); firing_rate = np.zeros(N)
Setup(w) ==
    /\ pc[w] = "setup"
    /\ IF dt = 0
       THEN /\ Raise(w, "ZeroDivisionError")
            /\ UNCHANGED <<nt, firing_rate>>
       ELSE /\ nt' = Round(T, dt)
            /\ firing_rate' = [k \in 1..Len(I_inj) |-> 0]
            /\ pc' = [pc EXCEPT ![w] = "for_j"]
            /\ UNCHANGED err
    /\ UNCHANGED <<dt, T, solver, I_inj, j, HH_neuron, V_arr, i, X, spike, rate>>

\* for j in range(N)
ForJ(w) ==
    /\ pc[w] = "for_j"
    /\ IF j[w] < Len(I_inj)
       THEN /\ j' = [j EXCEPT ![w] = j[w] + 1]
            /\ pc' = [pc EXCEPT ![w] = "new"]
       ELSE /\ pc' = [pc EXCEPT ![w] = "done"]
            /\ UNCHANGED j
    /\ UNCHANGED <<dt, T, solver, nt, I_inj, firing_rate, err,
                   HH_neuron, V_arr, i, X, spike, rate>>

\* the loop body with the instance built once and kept from run to run
NewRun_keep(w) ==
    /\ pc[w] = "new"
    /\ HH_neuron' = [HH_neuron EXCEPT
                       ![w] = IF DOMAIN @ = {} THEN HodgkinHuxleyModel(dt, solver)
                              ELSE @]
    /\ V_arr' = [V_arr EXCEPT ![w] = Zeros(nt)]
    /\ i' = [i EXCEPT ![w] = 0]
    /\ pc' = [pc EXCEPT ![w] = "for_i"]
    /\ UNCHANGED <<dt, T, solver, nt, I_inj, firing_rate, err, j, X, spike, rate>>

\* the loop body with an initial potential that depends on the frame
NewRun_seeded(w) ==
    /\ pc[w] = "new"
    /\ HH_neuron' = [HH_neuron EXCEPT
                       ![w] = [HodgkinHuxleyModel(dt, solver) EXCEPT
                                 !.states = <<fadd(InitStates[1], F(w, 1)),
                                              InitStates[2], InitStates[3],
                                              InitStates[4]>>]]
    /\ V_arr' = [V_arr EXCEPT ![w] = Zeros(nt)]
    /\ i' = [i EXCEPT ![w] = 0]
    /\ pc' = [pc EXCEPT ![w] = "for_i"]
    /\ UNCHANGED <<dt, T, solver, nt, I_inj, firing_rate, err, j, X, spike, rate>>

\* HH_neuron = HodgkinHuxleyModel(dt=dt, solver=...); V_arr = np.zeros((nt, 4))
NewRun(w) ==
    /\ pc[w] = "new"
    /\ HH_neuron' = [HH_neuron EXCEPT ![w] = HodgkinHuxleyModel(dt, solver)]
    /\ IF nt < 0
       THEN /\ Raise(w, "ValueError")
            /\ UNCHANGED <<V_arr, i>>
       ELSE /\ V_arr' = [V_arr EXCEPT ![w] = Zeros(nt)]
            /\ i' = [i EXCEPT ![w] = 0]
            /\ pc' = [pc EXCEPT ![w] = "for_i"]
            /\ UNCHANGED err
    /\ UNCHANGED <<dt, T, solver, nt, I_inj, firing_rate, j, X, spike, rate>>

\* the loop with one instance, that of frame 1, used by every frame
StepI_shared(w) ==
    /\ pc[w] = "for_i"
    /\ DOMAIN HH_neuron[1] # {}
    /\ IF i[w] < nt
       THEN LET o == Call(HH_neuron[1], I_inj[j[w]])
            IN  /\ HH_neuron' = [HH_neuron EXCEPT ![1] = o]
                /\ X' = [X EXCEPT ![w] = o.states]
                /\ V_arr' = [V_arr EXCEPT ![w] = SetRow(@, i[w] + 1, o.states[1])]
                /\ i' = [i EXCEPT ![w] = i[w] + 1]
                /\ UNCHANGED <<pc, err>>
       ELSE /\ pc' = [pc EXCEPT ![w] = "spike"]
            /\ UNCHANGED <<err, HH_neuron, X, V_arr, i>>
    /\ UNCHANGED <<dt, T, solver, nt, I_inj, firing_rate, j, spike, rate>>

\* the loop with the sample taken before the step, so that the first sample
\* is the initial V
StepI_pre(w) ==
    /\ pc[w] = "for_i"
    /\ IF i[w] < nt
       THEN LET o == Call(HH_neuron[w], I_inj[j[w]])
            IN  /\ HH_neuron' = [HH_neuron EXCEPT ![w] = o]
                /\ X' = [X EXCEPT ![w] = o.states]
                /\ V_arr' = [V_arr EXCEPT
                               ![w] = SetRow(@, i[w] + 1, HH_neuron[w].states[1])]
                /\ i' = [i EXCEPT ![w] = i[w] + 1]
                /\ UNCHANGED <<pc, err>>
       ELSE /\ pc' = [pc EXCEPT ![w] = "spike"]
            /\ UNCHANGED <<err, HH_neuron, X, V_arr, i>>
    /\ UNCHANGED <<dt, T, solver, nt, I_inj, firing_rate, j, spike, rate>>

\* for i in range(nt): X = HH_neuron(I_inj[j]); V_arr[i] = X[0]
StepI(w) ==
    /\ pc[w] = "for_i"
    /\ IF i[w] < nt
       THEN LET o == Call(HH_neuron[w], I_inj[j[w]])
            IN  /\ HH_neuron' = [HH_neuron EXCEPT ![w] = o]
                /\ X' = [X EXCEPT ![w] = o.states]
                /\ IF o.states = None
                   THEN /\ Raise(w, "TypeError")
                        /\ UNCHANGED <<V_arr, i>>
                   ELSE /\ V_arr' = [V_arr EXCEPT
                                       ![w] = SetRow(@, i[w] + 1, o.states[1])]
                        /\ i' = [i EXCEPT ![w] = i[w] + 1]
                        /\ UNCHANGED <<pc, err>>
       ELSE /\ pc' = [pc EXCEPT ![w] = "spike"]
            /\ UNCHANGED <<err, HH_neuron, X, V_arr, i>>
    /\ UNCHANGED <<dt, T, solver, nt, I_inj, firing_rate, j, spike, rate>>

\* spike = np.bitwise_and(V_arr[:-1]<0, V_arr[1:]>0)
Detect(w) ==
    /\ pc[w] = "spike"
    /\ spike' = [spike EXCEPT ![w] = Spike(V_arr[w])]
    /\ pc' = [pc EXCEPT ![w] = "rate"]
    /\ UNCHANGED <<dt, T, solver, nt, I_inj, firing_rate, err, j,
                   HH_neuron, V_arr, i, X, rate>>

\* rate = np.sum(spike) / T*1e3
Rate(w) ==
    /\ pc[w] = "rate"
    /\ rate' = [rate EXCEPT ![w] = RateOf(spike[w], T)]
    /\ pc' = [pc EXCEPT ![w] = "store"]
    /\ UNCHANGED <<dt, T, solver, nt, I_inj, firing_rate, err, j,
                   HH_neuron, V_arr, i, X, spike>>

\* the store with the positions counted from the end
Store_rev(w) ==
    /\ pc[w] = "store"
    /\ firing_rate' = [firing_rate EXCEPT ![Len(I_inj) + 1 - j[w]] = rate[w]]
    /\ pc' = [pc EXCEPT ![w] = IF w = 0 THEN "for_j" ELSE "end"]
    /\ UNCHANGED <<dt, T, solver, nt, I_inj, err, j,
                   HH_neuron, V_arr, i, X, spike, rate>>

\* firing_rate[j] = rate, the end of the loop body
Store(w) ==
    /\ pc[w] = "store"
    /\ firing_rate' = [firing_rate EXCEPT ![j[w]] = rate[w]]
    /\ pc' = [pc EXCEPT ![w] = IF w = 0 THEN "for_j" ELSE "end"]
    /\ UNCHANGED <<dt, T, solver, nt, I_inj, err, j,
                   HH_neuron, V_arr, i, X, spike, rate>>

Next ==
    \/ Setup(0)
    \/ ForJ(0)
    \/ NewRun(0)
    \/ StepI(0)
    \/ Detect(0)
    \/ Rate(0)
    \/ Store(0)

Spec == Init /\ [][Next]_vars

\* ------------------------------------------------------------------------
\* the sweep under any configuration, valid or not
\* ------------------------------------------------------------------------
DtAny == {F(0 - 5, 10), 0, F(5, 10)}

TAny == {F(0 - 25, 10), 0, F(25, 10)}

SolverAny == {"RK4", "Euler", "Heun"}

InitConfig ==
    /\ dt \in DtAny
    /\ T \in TAny
    /\ solver \in SolverAny
    /\ I_inj \in SweepInputs
    /\ InitFrames({0})

SpecConfig == InitConfig /\ [][Next]_vars

\* ------------------------------------------------------------------------
\* the spike detector and the rate on synthetic traces
\* ------------------------------------------------------------------------
SampleVals == {F(0 - 2, 1), F(0 - 1, 1), 0, F(1, 1), F(3, 1), NaN}

ExampleTrace == <<F(0 - 10, 1), F(0 - 1, 1), F(1, 1), F(5, 1), F(0 - 2, 1), F(3, 1)>>

Traces == UNION {[1..n -> SampleVals] : n \in 0..MaxLen} \cup {ExampleTrace}

TDetect == {F(10, 1), F(500, 1)}

\* the recording array after the loop has stored the samples of trace tr
Recorded(tr) == [r \in 1..Len(tr) |-> <<tr[r], tr[r], tr[r], tr[r]>>]

InitDetect ==
    /\ dt = F(1, 100)
    /\ T \in TDetect
    /\ solver = "Euler"
    /\ I_inj = <<F(10, 1)>>
    /\ firing_rate = <<0>>
    /\ \E tr \in Traces :
          /\ nt = Len(tr)
          /\ V_arr = [w \in {0} |-> Recorded(tr)]
          /\ i = [w \in {0} |-> Len(tr)]
    /\ pc = [w \in {0} |-> "spike"]
    /\ err = [w \in {0} |-> "none"]
    /\ j = [w \in {0} |-> 1]
    /\ HH_neuron = [w \in {0} |-> HodgkinHuxleyModel(dt, solver)]
    /\ X = [w \in {0} |-> None]
    /\ spike = [w \in {0} |-> None]
    /\ rate = [w \in {0} |-> None]

NextDetect ==
    \/ Detect(0)
    \/ Rate(0)
    \/ Store(0)

SpecDetect == InitDetect /\ [][NextDetect]_vars

\* ------------------------------------------------------------------------
\* the sweep with one unit of work per current, run concurrently
\* ------------------------------------------------------------------------
Workers == Frames \ {0}

Running == {"new", "for_i", "spike", "rate", "store"}

ParCurrents == {F(10, 1), F(29, 1)}

InitPar ==
    /\ dt = F(1, 1)
    /\ T = F(25, 10)
    /\ solver \in SolverSet
    /\ I_inj \in {q \in SweepInputs : \A k \in 1..Len(q) : q[k] \in ParCurrents}
    /\ InitFrames(0..Len(I_inj))

\* every unit of work is handed its own j
Submit ==
    /\ pc[0] = "for_j"
    /\ pc' = [w \in Frames |-> IF w = 0 THEN "join" ELSE "new"]
    /\ j' = [w \in Frames |-> w]
    /\ UNCHANGED <<dt, T, solver, nt, I_inj, firing_rate, err,
                   HH_neuron, V_arr, i, X, spike, rate>>

\* a unit of work is stopped from outside before it has stored its rate;
\* its frame is discarded and with it the objects bound in it
Abort(w) ==
    /\ pc[w] \in Running
    /\ pc' = [pc EXCEPT ![w] = "aborted"]
    /\ HH_neuron' = [HH_neuron EXCEPT ![w] = None]
    /\ V_arr' = [V_arr EXCEPT ![w] = None]
    /\ i' = [i EXCEPT ![w] = 0]
    /\ X' = [X EXCEPT ![w] = None]
    /\ spike' = [spike EXCEPT ![w] = None]
    /\ rate' = [rate EXCEPT ![w] = None]
    /\ UNCHANGED <<dt, T, solver, nt, I_inj, firing_rate, err, j>>

\* the results are collected once every unit of work has ended
Collect ==
    /\ pc[0] = "join"
    /\ \A w \in Workers : pc[w] \in {"end", "aborted", "error"}
    /\ pc' = [pc EXCEPT ![0] = "done"]
    /\ UNCHANGED <<dt, T, solver, nt, I_inj, firing_rate, err, j,
                   HH_neuron, V_arr, i, X, spike, rate>>

NextPar ==
    \/ Setup(0)
    \/ Submit
    \/ \E w \in Workers : NewRun(w)
    \/ \E w \in Workers : StepI(w)
    \/ \E w \in Workers : Detect(w)
    \/ \E w \in Workers : Rate(w)
    \/ \E w \in Workers : Store(w)
    \/ \E w \in Workers : Abort(w)
    \/ Collect

SpecPar == InitPar /\ [][NextPar]_vars

\* ------------------------------------------------------------------------
\* the time loop entered with the instance in any state
\* ------------------------------------------------------------------------
StepV == {F(0 - 65, 1), F(0 - 55, 1), F(0 - 40, 1), F(30, 1)}

StepM == {F(5, 100), F(9, 10)}

StepH == {F(6, 10), F(0, 1)}

StepN == {F(32, 100), F(9, 10)}

StepStates == {<<v, m, h, n>> : v \in StepV, m \in StepM, h \in StepH, n \in StepN}

StepCurrents == {F(0, 1), F(10, 1)}

\* the loop of lines 224-226 about to start on an instance whose state is x
InitStep ==
    /\ dt \in DtSet
    /\ T = F(1, 1)
    /\ solver \in SolverSet
    /\ nt = Round(T, dt)
    /\ \E I \in StepCurrents : I_inj = <<I>>
    /\ firing_rate = <<0>>
    /\ pc = [w \in {0} |-> "for_i"]
    /\ err = [w \in {0} |-> "none"]
    /\ j = [w \in {0} |-> 1]
    /\ \E x \in StepStates :
          HH_neuron = [w \in {0} |-> [HodgkinHuxleyModel(dt, solver)
                                        EXCEPT !.states = x]]
    /\ V_arr = [w \in {0} |-> Zeros(nt)]
    /\ i = [w \in {0} |-> 0]
    /\ X = [w \in {0} |-> None]
    /\ spike = [w \in {0} |-> None]
    /\ rate = [w \in {0} |-> None]

NextStep == StepI(0)

SpecStep == InitStep /\ [][NextStep]_vars

\* ------------------------------------------------------------------------
\* one long run without injected current
\* ------------------------------------------------------------------------
InitRest ==
    /\ dt \in DtSet
    /\ T = F(200, 1)
    /\ solver \in SolverSet
    /\ I_inj = <<F(0, 1)>>
    /\ InitFrames({0})

SpecRest == InitRest /\ [][Next]_vars

\* ------------------------------------------------------------------------
\* one run taken on its own
\* ------------------------------------------------------------------------
RECURSIVE InstanceAfter(_, _)
\* the instance after k calls with current I, from a new instance
InstanceAfter(I, k) ==
    IF k = 0 THEN HodgkinHuxleyModel(dt, solver)
    ELSE Call(InstanceAfter(I, k - 1), I)

\* the recording array of a whole run with current I
RunArray(I) == [r \in 1..nt |-> LET v == InstanceAfter(I, r).states[1]
                                IN  <<v, v, v, v>>]

\* the firing rate of a whole run with current I
RunRate(I) == RateOf(Spike(RunArray(I)), T)

\* the V samples recorded by frame w, one per step
Trace(w) == [r \in 1..Len(V_arr[w]) |-> V_arr[w][r][1]]

IsNone(x) == DOMAIN x = {}

GreaterEq(a, b) == ~IsNaN(a) /\ ~IsNaN(b) /\ a >= b

\* frame w has computed its spike array
HasSpike(w) == pc[w] \in {"rate", "store", "for_j", "end"} /\ ~IsNone(spike[w])

\* the detector records a spike at index r of the trace of frame w
SpikeAt(w, r) == \E c \in 1..4 : spike[w][r][c]

\* the number of steps r -> r+1 of trace tr that go from below 0 to above 0
UpCrossings(tr) ==
    Cardinality({r \in 1..(Len(tr) - 1) : Less(tr[r], 0) /\ Greater(tr[r + 1], 0)})

\* ------------------------------------------------------------------------
\* the spike detector
\* ------------------------------------------------------------------------
\* C1, as stated: the detector records a spike at index r iff trace[r] < 0
\* and trace[r+1] >= 0, so that a sample equal to 0 after a negative sample
\* counts as an upward crossing.
C1_Original ==
    \A w \in Frames : HasSpike(w) =>
        \A r \in 1..(Len(V_arr[w]) - 1) :
            SpikeAt(w, r) <=>
                (Less(Trace(w)[r], 0) /\ GreaterEq(Trace(w)[r + 1], 0))

\* C1, amended: the detector has one entry per index r in 1 .. stepCount-1 and
\* records a spike at r iff trace[r] < 0 and trace[r+1] > 0 (strictly): a
\* sample equal to 0 after a negative sample is not an upward crossing.
C1_Amended ==
    \A w \in Frames : HasSpike(w) =>
        /\ Len(spike[w]) = (IF Len(V_arr[w]) = 0 THEN 0 ELSE Len(V_arr[w]) - 1)
        /\ \A r \in 1..(Len(V_arr[w]) - 1) :
              SpikeAt(w, r) <=>
                  (Less(Trace(w)[r], 0) /\ Greater(Trace(w)[r + 1], 0))

\* a trace with a negative sample followed by 0, where no spike is recorded,
\* and a negative sample followed by a positive one, where a spike is
C1_Witness ==
    /\ HasSpike(0)
    /\ \E r \in 1..(Len(V_arr[0]) - 1) :
          Trace(0)[r] < 0 /\ Trace(0)[r + 1] = 0 /\ ~SpikeAt(0, r)
    /\ \E r \in 1..(Len(V_arr[0]) - 1) :
          Trace(0)[r] < 0 /\ Greater(Trace(0)[r + 1], 0) /\ SpikeAt(0, r)

\* ------------------------------------------------------------------------
\* the firing rate
\* ------------------------------------------------------------------------
\* C2: the firing rate of a run is spikeCount / T * 1000, where spikeCount
\* is the number of upward zero-crossings of the run's trace of V samples,
\* each crossing counted once.
C2_RateIsCrossingsPerSecond ==
    \A w \in Frames : pc[w] = "store" =>
        rate[w] = fmul(fdiv(UpCrossings(Trace(w)) * Scale, T), F(1000, 1))

\* ------------------------------------------------------------------------
\* the sweep
\* ------------------------------------------------------------------------
\* C3: the sweep produces one firing rate per input current, and once it is
\* done the rate at position k is the rate of the run driven by the current
\* at input position k.
C3_OneRatePerCurrent ==
    /\ pc[0] # "setup" => Len(firing_rate) = Len(I_inj)
    /\ pc[0] = "done" =>
          \A k \in 1..Len(I_inj) : firing_rate[k] = RunRate(I_inj[k])

\* a finished sweep of two currents whose rates differ
C3_Witness ==
    /\ pc[0] = "done"
    /\ Len(I_inj) = 2
    /\ firing_rate[1] # firing_rate[2]

\* C4: every run starts from the fixed initial state whatever ran before it,
\* and nothing is carried over: after i steps of the run for current I the
\* instance is the one that i steps from a new instance with I give.
C4_FreshStatePerRun ==
    \A w \in Frames :
        /\ (pc[w] = "for_i" /\ i[w] = 0) => HH_neuron[w].states = InitStates
        /\ pc[w] \in {"for_i", "spike", "rate", "store"} =>
              HH_neuron[w] = InstanceAfter(I_inj[j[w]], i[w])

\* the second run of a sweep is about to start, after a first run that has
\* moved its instance away from the initial state and has recorded spikes
C4_Witness ==
    /\ pc[0] = "for_i"
    /\ j[0] = 2
    /\ i[0] = 0
    /\ nt > 0
    /\ Greater(firing_rate[1], 0)
    /\ HH_neuron[0].states = InitStates

\* ------------------------------------------------------------------------
\* errors
\* ------------------------------------------------------------------------
InvalidConfig == dt <= 0 \/ T <= 0 \/ solver \notin {"Euler", "RK4"}

\* C5: under an invalid configuration (dt <= 0, T <= 0 or an integrator other
\* than Euler and RK4) the program never gets past the construction of a run
\* other than by raising an error, and no instance is ever advanced.
C5_InvalidConfigRejected ==
    InvalidConfig =>
        \A w \in Frames :
            /\ pc[w] \in {"setup", "for_j", "new", "error"}
            /\ IsNone(HH_neuron[w]) \/ HH_neuron[w].states = InitStates

NonFinite(x) == \E c \in DOMAIN x : ~IsFinite(x[c])

\* C6: whenever the state of a run holds a non-finite value (nan or an
\* infinity) the run has stopped with an error: it takes no further step and
\* yields no firing rate.
C6_StopOnNonFinite ==
    \A w \in Frames :
        (~IsNone(HH_neuron[w]) /\ NonFinite(HH_neuron[w].states)) =>
            pc[w] = "error"

\* ------------------------------------------------------------------------
\* determinism and independence of the runs
\* ------------------------------------------------------------------------
InRun == {"for_i", "spike", "rate", "store", "end"}

C8_CountIsSignChanges ==
    \A w \in Frames :
        (HasSpike(w) /\ \A r \in 1..Len(V_arr[w]) :
                            Trace(w)[r] # 0 /\ ~IsNaN(Trace(w)[r])) =>
            np_sum(spike[w]) = UpCrossings(Trace(w))

\* no step of trace tr goes from below 0 to 0 or above
NoRise(tr) ==
    ~\E r \in 1..(Len(tr) - 1) : Less(tr[r], 0) /\ GreaterEq(tr[r + 1], 0)

\* C9: a run whose trace has no step from below 0 to 0 or above - an empty
\* trace, a single sample, all samples negative, all samples non-negative -
\* yields the firing rate 0, without error.
C9_NoCrossingGivesZero ==
    \A w \in Frames :
        NoRise(Trace(w)) =>
            /\ pc[w] # "error" /\ err[w] = "none"
            /\ pc[w] = "store" => rate[w] = 0
            /\ pc[w] = "for_j" => firing_rate[j[w]] = 0

\* the rate 0 has been stored for a run of no step at all
C9_Witness ==
    /\ pc[0] = "for_j"
    /\ nt = 0
    /\ Len(V_arr[0]) = 0
    /\ firing_rate[1] = 0

Singular == {F(0 - 40, 1), F(0 - 55, 1)}

\* C11: alpha_m and alpha_n return a finite value at the zero of their
\* denominator (V = -40, V = -55), so that the derivative at a finite state
\* with V exactly -40 or -55 is finite and the step from such a state does
\* not yield a state that holds nan.
C11_RatesDefinedAtSingularity ==
    \A w \in Frames :
        (pc[w] = "for_i" /\ i[w] < nt /\ ~NonFinite(HH_neuron[w].states)
             /\ HH_neuron[w].states[1] \in Singular) =>
            /\ IsFinite(alpha_m(HH_neuron[w].states[1]))
            /\ IsFinite(alpha_n(HH_neuron[w].states[1]))
            /\ ~NonFinite(Call(HH_neuron[w], I_inj[j[w]]).states)


\* ------------------------------------------------------------------------
\* the neuron at rest
\* ------------------------------------------------------------------------
\* C12: a run with injected current 0 and T >= 200 ms, started from the
\* initial state, records no upward zero-crossing and yields the firing rate
\* exactly 0.
C12_ZeroCurrentZeroRate ==
    \A w \in Frames :
        (pc[w] = "store" /\ I_inj[j[w]] = 0 /\ T >= F(200, 1)) =>
            /\ np_sum(spike[w]) = 0
            /\ rate[w] = 0


\* ------------------------------------------------------------------------
\* the integrator step
\* ------------------------------------------------------------------------
\* x + h*f(x)
EulerRef(f(_), x, h) == vadd(x, vscale(h, f(x)))

\* x + (k1 + 2*k2 + 2*k3 + k4)/6 with k1 = h*f(x), k2 = h*f(x + k1/2),
\* k3 = h*f(x + k2/2), k4 = h*f(x + k3)
RK4Ref(f(_), x, h) ==
    LET k1 == vscale(h, f(x))
        k2 == vscale(h, f(vadd(x, vscale(F(1, 2), k1))))
        k3 == vscale(h, f(vadd(x, vscale(F(1, 2), k2))))
        k4 == vscale(h, f(vadd(x, k3)))
    IN  vadd(x, vdiv(vadd(vadd(vadd(k1, vscale(F(2, 1), k2)),
                               vscale(F(2, 1), k3)), k4), F(6, 1)))

\* the points at which a step from x evaluates f, in order
EvalPoints(f(_), x, h, kind) ==
    IF kind = "Euler" THEN <<x>>
    ELSE LET k1 == vscale(h, f(x))
             p2 == vadd(x, vscale(F(1, 2), k1))
             k2 == vscale(h, f(p2))
             p3 == vadd(x, vscale(F(1, 2), k2))
             k3 == vscale(h, f(p3))
         IN  <<x, p2, p3, vadd(x, k3)>>

\* C13: one step with Euler returns x + dt*f(x) after exactly one evaluation
\* of the derivative, at x; one step with RK4 returns
\* x + (k1 + 2*k2 + 2*k3 + k4)/6 after exactly four evaluations, at x,
\* x + k1/2, x + k2/2 and x + k3 in this order.  The result is stored as it
\* is: the gating components are not clamped to [0, 1].
C13_StepFormula ==
    [][\A w \in Frames :
          (pc[w] = "for_i" /\ i[w] < nt /\ i'[w] = i[w] + 1) =>
              LET self1 == [HH_neuron[w] EXCEPT !.I_inj = I_inj[j[w]]]
                  x == HH_neuron[w].states
                  f(s) == dALLdt(self1, s)
                  calls == FuncCalls(self1, x, self1.dt)
              IN  /\ solver = "Euler" =>
                        /\ X'[w] = EulerRef(f, x, dt)
                        /\ Len(calls) = 1
                  /\ solver = "RK4" =>
                        /\ X'[w] = RK4Ref(f, x, dt)
                        /\ Len(calls) = 4
                  /\ calls = EvalPoints(f, x, dt, solver)
                  /\ HH_neuron'[w].states = X'[w]]_vars

\* a step with RK4 from a finite state has returned a finite state whose m
\* or n lies outside [0, 1]
C13_Witness ==
    /\ pc[0] = "for_i"
    /\ i[0] = 1
    /\ solver = "RK4"
    /\ ~NonFinite(X[0])
    /\ \E c \in 2..4 : X[0][c] < 0 \/ X[0][c] > F(1, 1)


\* ------------------------------------------------------------------------
\* the time loop
\* ------------------------------------------------------------------------
\* C14: a run performs exactly nt = round(T/dt) steps, each from the state
\* the step before has returned; its trace has exactly nt samples, and sample
\* r (counted from 1) is the V of the state after step r, so that the initial
\* V is not a sample.  Step by step: the loop is entered at i = 0 with a new
\* instance and nt empty rows, step i + 1 starts from the state step i has
\* returned and writes the V it returns into row i + 1 and into no other
\* row, and the loop is left when i = nt and not before.
C14_OneSamplePerStep ==
    [][\A w \in Frames :
          /\ (pc[w] = "new" /\ pc'[w] = "for_i") =>
                /\ nt = Round(T, dt)
                /\ i'[w] = 0
                /\ Len(V_arr'[w]) = nt
                /\ \A r \in 1..nt : V_arr'[w][r][1] = 0
                /\ HH_neuron'[w].states = InitStates
          /\ (pc[w] = "for_i" /\ pc'[w] = "for_i") =>
                /\ i[w] < nt
                /\ i'[w] = i[w] + 1
                /\ i[w] >= 1 => HH_neuron[w].states = X[w]
                /\ X'[w] = Call(HH_neuron[w], I_inj[j[w]]).states
                /\ HH_neuron'[w].states = X'[w]
                /\ Len(V_arr'[w]) = nt
                /\ \A r \in 1..nt :
                      V_arr'[w][r][1] = (IF r = i'[w] THEN X'[w][1]
                                        ELSE V_arr[w][r][1])
          /\ (pc[w] = "for_i" /\ pc'[w] = "spike") =>
                /\ i[w] = nt
                /\ V_arr'[w] = V_arr[w]
          /\ ~(pc[w] = "for_i" /\ pc'[w] = "error")]_vars

\* a run of 5 = round(2.5/0.5) steps has ended, with V moving at every step
C14_Witness ==
    /\ pc[0] = "spike"
    /\ nt = 5
    /\ Trace(0)[1] # InitStates[1]
    /\ \A r \in 1..4 : IsFinite(Trace(0)[r]) /\ Trace(0)[r] # Trace(0)[r + 1]


\* ------------------------------------------------------------------------
\* the derivative
\* ------------------------------------------------------------------------
\* C15: the derivative is a function of the state, the injected current and
\* the parameters only, and evaluating it changes nothing.  A step of the run
\* for current I returns what the step formula gives with the derivative
\* taken at the current I in every evaluation and at the parameters set at
\* construction, whatever the instance held before and whatever other runs
\* have done in between; of the instance it changes the state and the stored
\* current alone, and it changes nothing of any other run.
C15_DerivativePure ==
    [][\A w \in Frames :
          (pc[w] = "for_i" /\ i[w] < nt /\ i'[w] = i[w] + 1) =>
              LET I == I_inj[j[w]]
                  p == [HodgkinHuxleyModel(dt, solver) EXCEPT !.I_inj = I]
                  f(s) == dALLdt(p, s)
                  x == HH_neuron[w].states
              IN  /\ X'[w] = (IF solver = "RK4" THEN RK4Ref(f, x, dt)
                              ELSE EulerRef(f, x, dt))
                  /\ HH_neuron'[w] = [HH_neuron[w] EXCEPT !.states = X'[w],
                                                          !.I_inj = I]
                  /\ \A v \in Frames \ {w} :
                        HH_neuron'[v] = HH_neuron[v] /\ X'[v] = X[v]
                  /\ UNCHANGED <<dt, T, solver, nt, I_inj>>]_vars

\* two concurrent runs with different currents have both taken RK4 steps,
\* each instance holding its own current
C15_Witness ==
    /\ Len(I_inj) = 2
    /\ solver = "RK4"
    /\ pc[1] = "for_i" /\ i[1] = 2
    /\ pc[2] = "for_i" /\ i[2] = 1
    /\ HH_neuron[1].I_inj = I_inj[1]
    /\ HH_neuron[2].I_inj = I_inj[2]
    /\ I_inj[1] # I_inj[2]


\* ------------------------------------------------------------------------
\* parameters and configuration
\* ------------------------------------------------------------------------
\* the model parameters of instance self
Params(self) ==
    <<self.C_m, self.g_Na, self.g_K, self.g_L, self.E_Na, self.E_K, self.E_L>>

\* C16: no step of a sweep changes dt, T or the solver, none changes nt once
\* it is computed, and every instance holds, after every step, the parameters
\* C_m, g_Na, g_K, g_L, E_Na, E_K, E_L that __init__ sets and the dt and the
\* solver it was constructed with.
C16_ParametersReadOnly ==
    [][/\ dt' = dt
       /\ T' = T
       /\ solver' = solver
       /\ pc[0] # "setup" => nt' = nt
       /\ \A w \in Frames :
             DOMAIN HH_neuron'[w] # {} =>
                 /\ Params(HH_neuron'[w]) = Params(HodgkinHuxleyModel(dt, solver))
                 /\ HH_neuron'[w].dt = dt
                 /\ HH_neuron'[w].solver = solver]_vars

\* a sweep of two runs of 10 steps has ended; the first has recorded spikes
\* and the instance of the last has left the initial state
C16_Witness ==
    /\ pc[0] = "done"
    /\ Len(I_inj) = 2
    /\ nt = 10
    /\ Greater(firing_rate[1], 0)
    /\ HH_neuron[0].states # InitStates
    /\ Params(HH_neuron[0]) = Params(HodgkinHuxleyModel(dt, solver))


\* ------------------------------------------------------------------------
\* the shape of the state
\* ------------------------------------------------------------------------
\* C17: the state of every instance, before and after every step and for
\* every solver selection, is a vector of exactly 4 components; it is never
\* None and never of another length.
C17_StateHasFourComponents ==
    \A w \in Frames :
        DOMAIN HH_neuron[w] # {} => DOMAIN HH_neuron[w].states = 1..4


\* ------------------------------------------------------------------------
\* bounds of the spike count and of the rate
\* ------------------------------------------------------------------------
\* C18: the detector never records spikes at two consecutive indices of a
\* trace, so the spike count of a trace of nt samples is between 0 and
\* floor(nt / 2) and the firing rate is between 0 and 1000 * floor(nt / 2) / T.
C18_CountAtMostHalfTheSteps ==
    \A w \in Frames :
        HasSpike(w) =>
            /\ \A r \in 1..(Len(spike[w]) - 1) : ~(SpikeAt(w, r) /\ SpikeAt(w, r + 1))
            /\ np_sum(spike[w]) >= 0
            /\ np_sum(spike[w]) <= nt \div 2
            /\ pc[w] = "store" =>
                  /\ GreaterEq(rate[w], 0)
                  /\ GreaterEq(fmul(fdiv(F(nt \div 2, 1), T), F(1000, 1)), rate[w])

====
